---- MODULE Spec2Model ----
(***************************************************************************)
(* Model of the transaction wrapper of go-ds-mongo (txn.go): one mongoTxn  *)
(* shared by several goroutines.  Every method locks t.lock, reads         *)
(* t.finalized, makes its remote calls and unlocks on return.  The mongo   *)
(* session and the datastore delegate are remote: each call to them may    *)
(* succeed or fail, and the model records every call that is issued.       *)
(***************************************************************************)
EXTENDS Integers, Sequences, FiniteSets, TLC

\* Number of goroutines sharing the wrapper.
NumProcs == 2
\* Number of method calls the goroutines make on the wrapper, all together.
MaxCalls == 4
\* Number of goroutines creating transactions on the store.
NumCallers == 1
\* Number of sessions the store's mongo client hands out.
MaxSessions == 2
\* Number of method calls made on the wrappers of one store, all together.
MaxTxnCalls == 3

Procs == 1..NumProcs

\* The goroutines that call newTransaction.
Callers == 1..NumCallers

\* t.lock is free.
Unlocked == 0

ReadOps == {"Get", "Has", "GetSize", "Query", "QueryExtended"}
WriteOps == {"Delete", "Put"}
CrudOps == ReadOps \cup WriteOps
FinOps == {"Commit", "Discard"}
Ops == CrudOps \cup FinOps

VARIABLES
    lock,             \* t.lock: Unlocked, or the goroutine holding it
    finalized,        \* t.finalized
    session,          \* t.session: the calls the remote session has received
    delegated,        \* number of calls the store delegate (t.m.get, ...) has received
    pc,               \* where each goroutine is in its current method
    op,               \* the method each goroutine is in, "none" between calls
    ret,              \* what that method is about to return to its caller
    issued,           \* the remote calls it has made so far, in order: <<call, context, ok>>
    calls,            \* how many CRUD and finalizing methods each goroutine has invoked
    commitReturned,   \* some Commit has returned nil
    discardReturned,  \* some Discard that found the wrapper not finalized has returned
    closed,           \* m.closed of the store
    rlocked,          \* m.lock: the goroutines holding it for reading
    fpc,              \* where each goroutine is in newTransaction
    fses,             \* newTransaction's local session: an index of sessions, 0 before
    fret,             \* what newTransaction is about to return: [txn, err], txn 0 for nil
    sessions,         \* the sessions of the mongo client and the calls each has received
    wrappers,         \* the wrappers newTransaction has returned
    txnCalls          \* number of method calls made on those wrappers

\* The wrapper shared by the goroutines.
tvars == <<lock, finalized, session, delegated, pc, op, ret, issued, calls,
           commitReturned, discardReturned>>

\* The store, its sessions and the wrappers it has made.
svars == <<closed, rlocked, fpc, fses, fret, sessions, wrappers, txnCalls>>

vars == <<tvars, svars>>

\* newTransaction has not come to a return.
NoReturn == [txn |-> 0, err |-> "none"]

\* newTransaction returns nil and the error e.
Failed(e) == [txn |-> 0, err |-> e]

\* &mongoTxn{session: session, m: m, ctx: ...}: finalized is the zero value.
Init ==
    /\ lock = Unlocked
    /\ finalized = FALSE
    /\ session = [commits |-> 0, aborts |-> 0, ends |-> 0]
    /\ delegated = 0
    /\ pc = [p \in Procs |-> "idle"]
    /\ op = [p \in Procs |-> "none"]
    /\ ret = [p \in Procs |-> "none"]
    /\ issued = [p \in Procs |-> <<>>]
    /\ calls = [p \in Procs |-> [crud |-> 0, fin |-> 0]]
    /\ commitReturned = FALSE
    /\ discardReturned = FALSE
    /\ closed = FALSE
    /\ rlocked = {}
    /\ fpc = [p \in Callers |-> "idle"]
    /\ fses = [p \in Callers |-> 0]
    /\ fret = [p \in Callers |-> NoReturn]
    /\ sessions = <<>>
    /\ wrappers = <<>>
    /\ txnCalls = 0

\* The error each method returns when it finds t.finalized set.
Rejection(o) ==
    CASE o \in ReadOps -> "ErrTxnFinalized"
      [] o \in WriteOps -> "ErrClosed"
      [] o = "Commit" -> "ErrTxnFinalized"
      [] o = "Discard" -> "void"

\* Where each method goes on when it finds t.finalized clear.
FirstCall(o) ==
    CASE o \in CrudOps -> "delegate"
      [] o = "Commit" -> "commit"
      [] o = "Discard" -> "abort"

\* The delegate method a CRUD method forwards to.
DelegateCall(o) ==
    CASE o = "Get" -> "get"
      [] o = "Has" -> "has"
      [] o = "GetSize" -> "getSize"
      [] o \in {"Query", "QueryExtended"} -> "query"
      [] o = "Delete" -> "delete"
      [] o = "Put" -> "put"

\* The context a CRUD method hands to the delegate: the caller's ctx, or the
\* wrapper's session context t.ctx.
DelegateCtx(o) == IF o = "QueryExtended" THEN "t.ctx" ELSE "ctx"

\* The number of calls of kind k ("crud" or "fin") the goroutines 1..n have made.
RECURSIVE Made(_, _)
Made(k, n) == IF n = 0 THEN 0 ELSE calls[n][k] + Made(k, n - 1)

\* A goroutine calls method o of the wrapper.
Invoke(p, o) ==
    /\ pc[p] = "idle"
    /\ Made("crud", NumProcs) + Made("fin", NumProcs) < MaxCalls
    /\ calls' = [calls EXCEPT ![p] =
                   IF o \in CrudOps THEN [@ EXCEPT !.crud = @ + 1]
                                    ELSE [@ EXCEPT !.fin = @ + 1]]
    /\ op' = [op EXCEPT ![p] = o]
    /\ pc' = [pc EXCEPT ![p] = "lock"]
    /\ UNCHANGED <<lock, finalized, session, delegated, ret, issued,
                   commitReturned, discardReturned>>
    /\ UNCHANGED svars

\* Lock as it would be if the mutex did not exclude a second holder.
LockNoWait(p) ==
    /\ pc[p] = "lock"
    /\ lock' = p
    /\ pc' = [pc EXCEPT ![p] = "check"]
    /\ UNCHANGED <<finalized, session, delegated, op, ret, issued, calls,
                   commitReturned, discardReturned>>
    /\ UNCHANGED svars

\* t.lock.Lock(): blocks until the mutex is free.
Lock(p) ==
    /\ pc[p] = "lock"
    /\ lock = Unlocked
    /\ lock' = p
    /\ pc' = [pc EXCEPT ![p] = "check"]
    /\ UNCHANGED <<finalized, session, delegated, op, ret, issued, calls,
                   commitReturned, discardReturned>>
    /\ UNCHANGED svars

\* CheckFinalized as it would be if Discard did not read t.finalized.
CheckFinalizedSkipDiscard(p) ==
    /\ pc[p] = "check"
    /\ IF finalized /\ op[p] # "Discard"
         THEN /\ ret' = [ret EXCEPT ![p] = Rejection(op[p])]
              /\ pc' = [pc EXCEPT ![p] = "unlock"]
         ELSE /\ ret' = ret
              /\ pc' = [pc EXCEPT ![p] = FirstCall(op[p])]
    /\ UNCHANGED <<lock, finalized, session, delegated, op, issued, calls,
                   commitReturned, discardReturned>>
    /\ UNCHANGED svars

\* CheckFinalized as it would be if the rejecting return left t.lock locked.
CheckFinalizedKeepsLock(p) ==
    /\ pc[p] = "check"
    /\ IF finalized
         THEN /\ pc' = [pc EXCEPT ![p] = "idle"]
              /\ op' = [op EXCEPT ![p] = "none"]
         ELSE /\ pc' = [pc EXCEPT ![p] = FirstCall(op[p])]
              /\ op' = op
    /\ UNCHANGED <<lock, finalized, session, delegated, ret, issued, calls,
                   commitReturned, discardReturned>>
    /\ UNCHANGED svars

\* if t.finalized { return ... }
CheckFinalized(p) ==
    /\ pc[p] = "check"
    /\ IF finalized
         THEN /\ ret' = [ret EXCEPT ![p] = Rejection(op[p])]
              /\ pc' = [pc EXCEPT ![p] = "unlock"]
         ELSE /\ ret' = ret
              /\ pc' = [pc EXCEPT ![p] = FirstCall(op[p])]
    /\ UNCHANGED <<lock, finalized, session, delegated, op, issued, calls,
                   commitReturned, discardReturned>>
    /\ UNCHANGED svars

\* CommitTransaction as it would be if a successful commit left t.finalized alone.
CommitTransactionForgetsFinalized(p) ==
    /\ pc[p] = "commit"
    /\ \E ok \in BOOLEAN :
         /\ session' = [session EXCEPT !.commits = @ + 1]
         /\ issued' = [issued EXCEPT ![p] = Append(@, <<"CommitTransaction", "ctx1", ok>>)]
         /\ IF ok
              THEN /\ ret' = ret
                   /\ pc' = [pc EXCEPT ![p] = "end"]
              ELSE /\ ret' = [ret EXCEPT ![p] = "CommitFailed"]
                   /\ pc' = [pc EXCEPT ![p] = "unlock"]
    /\ UNCHANGED <<lock, finalized, delegated, op, calls, commitReturned, discardReturned>>
    /\ UNCHANGED svars

\* CommitTransaction as it would be if t.finalized were set before the error check.
CommitTransactionFinalizesFirst(p) ==
    /\ pc[p] = "commit"
    /\ \E ok \in BOOLEAN :
         /\ session' = [session EXCEPT !.commits = @ + 1]
         /\ issued' = [issued EXCEPT ![p] = Append(@, <<"CommitTransaction", "ctx1", ok>>)]
         /\ finalized' = TRUE
         /\ IF ok
              THEN /\ ret' = ret
                   /\ pc' = [pc EXCEPT ![p] = "end"]
              ELSE /\ ret' = [ret EXCEPT ![p] = "CommitFailed"]
                   /\ pc' = [pc EXCEPT ![p] = "unlock"]
    /\ UNCHANGED <<lock, delegated, op, calls, commitReturned, discardReturned>>
    /\ UNCHANGED svars

\* Commit: t.session.CommitTransaction(ctx1); an error is returned wrapped,
\* success sets t.finalized.
CommitTransaction(p) ==
    /\ pc[p] = "commit"
    /\ \E ok \in BOOLEAN :
         /\ session' = [session EXCEPT !.commits = @ + 1]
         /\ issued' = [issued EXCEPT ![p] = Append(@, <<"CommitTransaction", "ctx1", ok>>)]
         /\ IF ok
              THEN /\ finalized' = TRUE
                   /\ ret' = ret
                   /\ pc' = [pc EXCEPT ![p] = "end"]
              ELSE /\ finalized' = finalized
                   /\ ret' = [ret EXCEPT ![p] = "CommitFailed"]
                   /\ pc' = [pc EXCEPT ![p] = "unlock"]
    /\ UNCHANGED <<lock, delegated, op, calls, commitReturned, discardReturned>>
    /\ UNCHANGED svars

\* AbortTransaction as it would be if Discard returned on an abort error.
AbortTransactionReturnsOnError(p) ==
    /\ pc[p] = "abort"
    /\ \E ok \in BOOLEAN :
         /\ session' = [session EXCEPT !.aborts = @ + 1]
         /\ issued' = [issued EXCEPT ![p] = Append(@, <<"AbortTransaction", "ctx1", ok>>)]
         /\ IF ok
              THEN /\ ret' = ret
                   /\ pc' = [pc EXCEPT ![p] = "end"]
              ELSE /\ ret' = [ret EXCEPT ![p] = "void"]
                   /\ pc' = [pc EXCEPT ![p] = "unlock"]
    /\ UNCHANGED <<lock, finalized, delegated, op, calls, commitReturned, discardReturned>>
    /\ UNCHANGED svars

\* Discard: t.session.AbortTransaction(ctx1); an error is logged and dropped.
AbortTransaction(p) ==
    /\ pc[p] = "abort"
    /\ \E ok \in BOOLEAN :
         /\ session' = [session EXCEPT !.aborts = @ + 1]
         /\ issued' = [issued EXCEPT ![p] = Append(@, <<"AbortTransaction", "ctx1", ok>>)]
    /\ pc' = [pc EXCEPT ![p] = "end"]
    /\ UNCHANGED <<lock, finalized, delegated, op, ret, calls,
                   commitReturned, discardReturned>>
    /\ UNCHANGED svars

\* EndSession as it would be if Commit handed an end-session failure to its caller.
EndSessionErrorReturned(p) ==
    /\ pc[p] = "end"
    /\ \E ok \in BOOLEAN :
         /\ session' = [session EXCEPT !.ends = @ + 1]
         /\ issued' = [issued EXCEPT ![p] = Append(@, <<"EndSession", "ctx1", ok>>)]
         /\ ret' = [ret EXCEPT ![p] =
                      IF op[p] = "Commit" THEN (IF ok THEN "nil" ELSE "EndSessionFailed")
                                          ELSE "void"]
    /\ pc' = [pc EXCEPT ![p] = "unlock"]
    /\ UNCHANGED <<lock, finalized, delegated, op, calls, commitReturned, discardReturned>>
    /\ UNCHANGED svars

\* Commit and Discard: t.session.EndSession(ctx1), which returns nothing;
\* then Commit returns nil and Discard returns.
EndSession(p) ==
    /\ pc[p] = "end"
    /\ \E ok \in BOOLEAN :
         /\ session' = [session EXCEPT !.ends = @ + 1]
         /\ issued' = [issued EXCEPT ![p] = Append(@, <<"EndSession", "ctx1", ok>>)]
    /\ ret' = [ret EXCEPT ![p] = IF op[p] = "Commit" THEN "nil" ELSE "void"]
    /\ pc' = [pc EXCEPT ![p] = "unlock"]
    /\ UNCHANGED <<lock, finalized, delegated, op, calls, commitReturned, discardReturned>>
    /\ UNCHANGED svars

\* Delegate as it would be if a delegate error made the method end the transaction.
DelegateEndsOnError(p) ==
    /\ pc[p] = "delegate"
    /\ \E ok \in BOOLEAN :
         /\ issued' = [issued EXCEPT ![p] =
                         Append(@, <<DelegateCall(op[p]), DelegateCtx(op[p]), ok>>)]
         /\ ret' = [ret EXCEPT ![p] = IF ok THEN "nil" ELSE "DelegateErr"]
         /\ finalized' = (finalized \/ ~ok)
         /\ session' = IF ok THEN session ELSE [session EXCEPT !.ends = @ + 1]
    /\ delegated' = delegated + 1
    /\ pc' = [pc EXCEPT ![p] = "unlock"]
    /\ UNCHANGED <<lock, op, calls, commitReturned, discardReturned>>
    /\ UNCHANGED svars

\* Get, Has, GetSize, Query, QueryExtended, Delete, Put: return t.m.<call>(...),
\* the delegate's result passed on as it is.
Delegate(p) ==
    /\ pc[p] = "delegate"
    /\ \E ok \in BOOLEAN :
         /\ issued' = [issued EXCEPT ![p] =
                         Append(@, <<DelegateCall(op[p]), DelegateCtx(op[p]), ok>>)]
         /\ ret' = [ret EXCEPT ![p] = IF ok THEN "nil" ELSE "DelegateErr"]
    /\ delegated' = delegated + 1
    /\ pc' = [pc EXCEPT ![p] = "unlock"]
    /\ UNCHANGED <<lock, finalized, session, op, calls, commitReturned, discardReturned>>
    /\ UNCHANGED svars

\* defer t.lock.Unlock(), and the method returns to its caller.
Unlock(p) ==
    /\ pc[p] = "unlock"
    /\ lock' = Unlocked
    /\ pc' = [pc EXCEPT ![p] = "idle"]
    /\ commitReturned' = (commitReturned \/ (op[p] = "Commit" /\ ret[p] = "nil"))
    /\ discardReturned' = (discardReturned \/ (op[p] = "Discard" /\ issued[p] # <<>>))
    /\ op' = [op EXCEPT ![p] = "none"]
    /\ ret' = [ret EXCEPT ![p] = "none"]
    /\ issued' = [issued EXCEPT ![p] = <<>>]
    /\ UNCHANGED <<finalized, session, delegated, calls>>
    /\ UNCHANGED svars

Next ==
    \E p \in Procs :
        \/ \E o \in Ops : Invoke(p, o)
        \/ Lock(p)
        \/ CheckFinalized(p)
        \/ CommitTransaction(p)
        \/ AbortTransaction(p)
        \/ EndSession(p)
        \/ Delegate(p)
        \/ Unlock(p)

Spec == Init /\ [][Next]_vars

\* Spec with the scheduling the liveness of the methods rests on: a goroutine
\* inside a method goes on running and its remote calls return (each is
\* bounded by a timeout), and a goroutine waiting in t.lock.Lock() gets the
\* mutex if it is free again and again.
FairSpec ==
    /\ Spec
    /\ \A p \in Procs :
         /\ SF_vars(Lock(p))
         /\ WF_vars(\/ CheckFinalized(p)
                     \/ CommitTransaction(p)
                     \/ AbortTransaction(p)
                     \/ EndSession(p)
                     \/ Delegate(p)
                     \/ Unlock(p))

(***************************************************************************)
(* The store: newTransaction step by step, against a concurrent shutdown,  *)
(* and the methods of the wrappers it returns, each run from Lock to       *)
(* Unlock as one step (t.lock serializes them).                            *)
(***************************************************************************)

\* A session as mongo.Client.StartSession returns it.
NewSession == [started |-> FALSE, commits |-> 0, aborts |-> 0, ends |-> 0]

\* &mongoTxn{session: session, m: m, ctx: ...} for the session with index s.
\* ops and finCalled record the CRUD methods called before the first Commit or
\* Discard; dlog records the calls the delegate has received from the wrapper.
NewWrapper(s) ==
    [session |-> s, finalized |-> FALSE,
     ops |-> <<>>, finCalled |-> FALSE, dlog |-> <<>>]

\* RLock as it would be if newTransaction did not take m.lock.
RLockSkipped(p) ==
    /\ fpc[p] = "idle"
    /\ fpc' = [fpc EXCEPT ![p] = "check"]
    /\ UNCHANGED <<closed, rlocked, fses, fret, sessions, wrappers, txnCalls>>
    /\ UNCHANGED tvars

\* A goroutine calls m.NewTransaction or m.NewTransactionExtended, and that
\* newTransaction: m.lock.RLock().
RLock(p) ==
    /\ fpc[p] = "idle"
    /\ rlocked' = rlocked \cup {p}
    /\ fpc' = [fpc EXCEPT ![p] = "check"]
    /\ UNCHANGED <<closed, fses, fret, sessions, wrappers, txnCalls>>
    /\ UNCHANGED tvars

\* if m.closed { return nil, ErrClosed }
CheckClosed(p) ==
    /\ fpc[p] = "check"
    /\ IF closed
         THEN /\ fret' = [fret EXCEPT ![p] = Failed("ErrClosed")]
              /\ fpc' = [fpc EXCEPT ![p] = "runlock"]
         ELSE /\ fret' = fret
              /\ fpc' = [fpc EXCEPT ![p] = "startSession"]
    /\ UNCHANGED <<closed, rlocked, fses, sessions, wrappers, txnCalls>>
    /\ UNCHANGED tvars

\* session, err := m.m.StartSession(); an error is returned wrapped.
StartSession(p) ==
    /\ fpc[p] = "startSession"
    /\ \/ /\ Len(sessions) < MaxSessions
          /\ sessions' = Append(sessions, NewSession)
          /\ fses' = [fses EXCEPT ![p] = Len(sessions) + 1]
          /\ fret' = fret
          /\ fpc' = [fpc EXCEPT ![p] = "startTransaction"]
       \/ /\ sessions' = sessions
          /\ fses' = fses
          /\ fret' = [fret EXCEPT ![p] = Failed("SessionStartError")]
          /\ fpc' = [fpc EXCEPT ![p] = "runlock"]
    /\ UNCHANGED <<closed, rlocked, wrappers, txnCalls>>
    /\ UNCHANGED tvars

\* StartTransaction as it would be if the store kept one session for all its wrappers.
StartTransactionSharesSession(p) ==
    /\ fpc[p] = "startTransaction"
    /\ \E ok \in BOOLEAN :
         IF ok
           THEN /\ sessions' = [sessions EXCEPT ![fses[p]].started = TRUE]
                /\ wrappers' = Append(wrappers, NewWrapper(1))
                /\ fret' = [fret EXCEPT ![p] = [txn |-> Len(wrappers) + 1, err |-> "nil"]]
           ELSE /\ sessions' = sessions
                /\ wrappers' = wrappers
                /\ fret' = [fret EXCEPT ![p] = Failed("TxnStartError")]
    /\ fpc' = [fpc EXCEPT ![p] = "runlock"]
    /\ UNCHANGED <<closed, rlocked, fses, txnCalls>>
    /\ UNCHANGED tvars

\* session.StartTransaction(): an error is returned wrapped, the session left
\* as it is; success returns the wrapper of the session.
StartTransaction(p) ==
    /\ fpc[p] = "startTransaction"
    /\ \E ok \in BOOLEAN :
         IF ok
           THEN /\ sessions' = [sessions EXCEPT ![fses[p]].started = TRUE]
                /\ wrappers' = Append(wrappers, NewWrapper(fses[p]))
                /\ fret' = [fret EXCEPT ![p] = [txn |-> Len(wrappers) + 1, err |-> "nil"]]
           ELSE /\ sessions' = sessions
                /\ wrappers' = wrappers
                /\ fret' = [fret EXCEPT ![p] = Failed("TxnStartError")]
    /\ fpc' = [fpc EXCEPT ![p] = "runlock"]
    /\ UNCHANGED <<closed, rlocked, fses, txnCalls>>
    /\ UNCHANGED tvars

\* defer m.lock.RUnlock(), and newTransaction returns to its caller.
RUnlock(p) ==
    /\ fpc[p] = "runlock"
    /\ rlocked' = rlocked \ {p}
    /\ fpc' = [fpc EXCEPT ![p] = "idle"]
    /\ fses' = [fses EXCEPT ![p] = 0]
    /\ fret' = [fret EXCEPT ![p] = NoReturn]
    /\ UNCHANGED <<closed, sessions, wrappers, txnCalls>>
    /\ UNCHANGED tvars

\* The store's shutdown, by a goroutine of its own: it sets m.closed holding
\* m.lock for writing, which it gets when no goroutine holds it for reading.
Close ==
    /\ rlocked = {}
    /\ ~closed
    /\ closed' = TRUE
    /\ UNCHANGED <<rlocked, fpc, fses, fret, sessions, wrappers, txnCalls>>
    /\ UNCHANGED tvars

\* The wrappers newTransaction has returned.
Txns == 1..Len(wrappers)

\* t.Commit(ctx) on wrapper w, from Lock to Unlock.
TxnCommit(w) ==
    /\ w \in Txns
    /\ txnCalls < MaxTxnCalls
    /\ txnCalls' = txnCalls + 1
    /\ LET t == wrappers[w] IN
         IF t.finalized
           THEN /\ wrappers' = [wrappers EXCEPT ![w].finCalled = TRUE]
                /\ sessions' = sessions
           ELSE \E ok \in BOOLEAN :
                  /\ sessions' = [sessions EXCEPT
                                    ![t.session].commits = @ + 1,
                                    ![t.session].ends = IF ok THEN @ + 1 ELSE @]
                  /\ wrappers' = [wrappers EXCEPT
                                    ![w].finalized = ok,
                                    ![w].finCalled = TRUE]
    /\ UNCHANGED <<closed, rlocked, fpc, fses, fret>>
    /\ UNCHANGED tvars

\* t.Discard(ctx) on wrapper w, from Lock to Unlock.
TxnDiscard(w) ==
    /\ w \in Txns
    /\ txnCalls < MaxTxnCalls
    /\ txnCalls' = txnCalls + 1
    /\ LET t == wrappers[w] IN
         /\ wrappers' = [wrappers EXCEPT ![w].finCalled = TRUE]
         /\ IF t.finalized
              THEN sessions' = sessions
              ELSE sessions' = [sessions EXCEPT ![t.session].aborts = @ + 1,
                                                ![t.session].ends = @ + 1]
    /\ UNCHANGED <<closed, rlocked, fpc, fses, fret>>
    /\ UNCHANGED tvars

\* TxnCrud as it would be if a failed delegate call were made a second time.
TxnCrudRetries(w, o) ==
    /\ w \in Txns
    /\ txnCalls < MaxTxnCalls
    /\ txnCalls' = txnCalls + 1
    /\ LET t == wrappers[w]
           c == <<DelegateCall(o), DelegateCtx(o)>> IN
         IF t.finalized
           THEN wrappers' = wrappers
           ELSE \E ok \in BOOLEAN :
                  wrappers' = [wrappers EXCEPT
                     ![w].dlog = IF ok THEN Append(@, c) ELSE Append(Append(@, c), c),
                     ![w].ops = IF t.finCalled THEN @ ELSE Append(@, o)]
    /\ UNCHANGED <<closed, rlocked, fpc, fses, fret, sessions>>
    /\ UNCHANGED tvars

\* t.Get, t.Has, t.GetSize, t.Query, t.QueryExtended, t.Delete or t.Put on
\* wrapper w, from Lock to Unlock.
TxnCrud(w, o) ==
    /\ w \in Txns
    /\ txnCalls < MaxTxnCalls
    /\ txnCalls' = txnCalls + 1
    /\ LET t == wrappers[w]
           c == <<DelegateCall(o), DelegateCtx(o)>> IN
         IF t.finalized
           THEN wrappers' = wrappers
           ELSE \E ok \in BOOLEAN :
                  wrappers' = [wrappers EXCEPT
                     ![w].dlog = Append(@, c),
                     ![w].ops = IF t.finCalled THEN @ ELSE Append(@, o)]
    /\ UNCHANGED <<closed, rlocked, fpc, fses, fret, sessions>>
    /\ UNCHANGED tvars

\* The CRUD methods the goroutines of StoreSpec call: one that reads and one
\* that writes.
StoreCrud == {"Get", "Put"}

StoreNext ==
    \/ \E p \in Callers :
          \/ RLock(p)
          \/ CheckClosed(p)
          \/ StartSession(p)
          \/ StartTransaction(p)
          \/ RUnlock(p)
    \/ Close
    \/ \E w \in 1..MaxSessions :
          \/ TxnCommit(w)
          \/ TxnDiscard(w)
          \/ \E o \in StoreCrud : TxnCrud(w, o)

\* A store with its goroutines creating transactions, shutting the store down
\* and calling the methods of the wrappers.
StoreSpec == Init /\ [][StoreNext]_vars

\* The state after one newTransaction has returned a wrapper.
SeqInit ==
    /\ lock = Unlocked
    /\ finalized = FALSE
    /\ session = [commits |-> 0, aborts |-> 0, ends |-> 0]
    /\ delegated = 0
    /\ pc = [p \in Procs |-> "idle"]
    /\ op = [p \in Procs |-> "none"]
    /\ ret = [p \in Procs |-> "none"]
    /\ issued = [p \in Procs |-> <<>>]
    /\ calls = [p \in Procs |-> [crud |-> 0, fin |-> 0]]
    /\ commitReturned = FALSE
    /\ discardReturned = FALSE
    /\ closed = FALSE
    /\ rlocked = {}
    /\ fpc = [p \in Callers |-> "idle"]
    /\ fses = [p \in Callers |-> 0]
    /\ fret = [p \in Callers |-> NoReturn]
    /\ sessions = <<[NewSession EXCEPT !.started = TRUE]>>
    /\ wrappers = <<NewWrapper(1)>>
    /\ txnCalls = 0

SeqNext ==
    \/ TxnCommit(1)
    \/ TxnDiscard(1)
    \/ \E o \in CrudOps : TxnCrud(1, o)

\* One goroutine calling the methods of one wrapper, one after the other.
SeqSpec == SeqInit /\ [][SeqNext]_vars

(***************************************************************************)
(* Properties                                                              *)
(***************************************************************************)

\* The goroutine holds t.lock: it is between Lock and Unlock.
Holding(p) == pc[p] \in {"check", "commit", "abort", "end", "delegate", "unlock"}

\* The goroutine is at a remote call: of the session, or of the delegate.
AtRemote(p) == pc[p] \in {"commit", "abort", "end", "delegate"}

\* The errors a method returns for a finalized wrapper.
FinalizedErrors == {"ErrTxnFinalized", "ErrClosed"}

\* C1: once a Commit has returned nil, no step issues a call to the session
\* or to the delegate, and every Get, Has, GetSize, Query, QueryExtended, Put,
\* Delete and Commit that returns, returns an error.
C1_AfterCommitRejected ==
    [][commitReturned =>
         /\ session' = session
         /\ delegated' = delegated
         /\ \A p \in Procs :
              (pc[p] = "unlock" /\ op[p] # "Discard") =>
                  (ret[p] \in FinalizedErrors /\ issued[p] = <<>>)]_vars

\* A Put is turned away, with no remote call, after a Commit has returned nil.
C1_Witness ==
    /\ commitReturned
    /\ \E p \in Procs :
         /\ pc[p] = "unlock"
         /\ op[p] = "Put"
         /\ ret[p] \in FinalizedErrors
         /\ issued[p] = <<>>

\* C2: once a Discard that found the wrapper active has returned, the wrapper
\* is finalized: no step issues a call to the session or to the delegate, and
\* every method that returns has been turned away.
C2_AfterDiscardRejected ==
    [][discardReturned =>
         /\ session' = session
         /\ delegated' = delegated
         /\ \A p \in Procs :
              pc[p] = "unlock" =>
                  (ret[p] \in FinalizedErrors \cup {"void"} /\ issued[p] = <<>>)]_vars

\* C3: a Discard that runs after a Discard has returned is a no-op: none of
\* its steps issues an abort-transaction or an end-session call.
C3_SecondDiscardNoOp ==
    [][\A p \in Procs :
         (discardReturned /\ op[p] = "Discard" /\ pc'[p] # pc[p]) =>
             session' = session]_vars

\* The Commit of p has had its remote commit fail.
CommitFailedIn(p) ==
    /\ op[p] = "Commit"
    /\ issued[p] # <<>>
    /\ issued[p][1] = <<"CommitTransaction", "ctx1", FALSE>>

\* C4: a Commit whose remote commit failed returns the commit error, leaves
\* finalized false and issues no end-session call; and a method is turned away
\* as finalized only when finalized is set, so a later Commit or CRUD call on
\* the still active wrapper goes on to its remote call.
C4_FailedCommitStaysActive ==
    /\ \A p \in Procs :
         CommitFailedIn(p) =>
             /\ pc[p] = "unlock"
             /\ ret[p] = "CommitFailed"
             /\ ~finalized
             /\ Len(issued[p]) = 1
    /\ \A p \in Procs :
         (pc[p] = "unlock" /\ issued[p] = <<>>) => finalized

\* After two failed remote commits and nothing else on the session, the
\* wrapper is still active and a CRUD call is being forwarded.
C4_Witness ==
    /\ session = [commits |-> 2, aborts |-> 0, ends |-> 0]
    /\ ~finalized
    /\ \E p \in Procs : pc[p] = "delegate"

\* C5: when each goroutine makes at most one CRUD call and at most one Commit
\* or Discard, the session is finalized at most once: end-session is issued at
\* most once, and no commit or abort is issued after an end-session.
C5_FinalizedAtMostOnce ==
    [][(\A p \in Procs : calls[p].crud <= 1 /\ calls[p].fin <= 1) =>
         /\ session'.ends <= 1
         /\ (session'.commits # session.commits \/ session'.aborts # session.aborts)
                => session.ends = 0]_vars

\* C6: with CRUD calls racing one Commit or Discard, no two goroutines are at
\* a remote call together, and no delegate call is issued once the Commit has
\* returned nil or the Discard has returned.
C6_PutBeforeOrRejected ==
    [][Made("fin", NumProcs) <= 1 =>
         /\ \A p, q \in Procs : (AtRemote(p) /\ AtRemote(q)) => p = q
         /\ (commitReturned \/ discardReturned) => delegated' = delegated]_vars

\* C7: a goroutine between Lock and Unlock is the holder of t.lock, so at most
\* one goroutine at a time is between them.
C7_MutualExclusion ==
    /\ \A p \in Procs : Holding(p) => lock = p
    /\ \A p, q \in Procs : (Holding(p) /\ Holding(q)) => p = q

\* One goroutine is at a remote call while another waits for the lock.
C7_Witness ==
    \E p, q \in Procs : AtRemote(p) /\ pc[q] = "lock"

\* C8: once a Commit has returned nil, a Discard issues no abort-transaction
\* and no end-session call, returns, and leaves finalized set.
C8_DiscardAfterCommitNoOp ==
    commitReturned =>
        /\ finalized
        /\ \A p \in Procs :
             op[p] = "Discard" =>
                 /\ pc[p] \in {"lock", "check", "unlock"}
                 /\ issued[p] = <<>>
                 /\ pc[p] = "unlock" => ret[p] = "void"

\* A Discard is about to return after a Commit has returned nil.
C8_Witness ==
    /\ commitReturned
    /\ \E p \in Procs : op[p] = "Discard" /\ pc[p] = "unlock"

\* The Commit of p has had its remote commit succeed.
CommitSucceededIn(p) ==
    /\ op[p] = "Commit"
    /\ issued[p] # <<>>
    /\ issued[p][1] = <<"CommitTransaction", "ctx1", TRUE>>

\* C9: a Commit whose remote commit succeeded has set finalized before its
\* end-session call, issues that call exactly once, and returns nil whether
\* the end-session call succeeded or failed.
C9_CommitSucceeds ==
    \A p \in Procs :
        CommitSucceededIn(p) =>
            /\ finalized
            /\ \/ pc[p] = "end" /\ Len(issued[p]) = 1
               \/ /\ pc[p] = "unlock"
                  /\ Len(issued[p]) = 2
                  /\ issued[p][2][1] = "EndSession"
                  /\ ret[p] = "nil"

\* A Commit is about to return nil although its end-session call failed.
C9_Witness ==
    \E p \in Procs :
        /\ pc[p] = "unlock"
        /\ ret[p] = "nil"
        /\ issued[p] = << <<"CommitTransaction", "ctx1", TRUE>>,
                          <<"EndSession", "ctx1", FALSE>> >>

\* C10: a Discard that found the wrapper active issues one abort-transaction
\* call, then, whether the abort succeeded or failed, one end-session call,
\* and returns without an error.
C10_DiscardBestEffort ==
    \A p \in Procs :
        (op[p] = "Discard" /\ issued[p] # <<>>) =>
            /\ issued[p][1][1] = "AbortTransaction"
            /\ \/ pc[p] = "end" /\ Len(issued[p]) = 1
               \/ /\ pc[p] = "unlock"
                  /\ Len(issued[p]) = 2
                  /\ issued[p][2][1] = "EndSession"
                  /\ ret[p] = "void"

\* A Discard is about to return although its abort-transaction call failed,
\* having gone on to end the session.
C10_Witness ==
    \E p \in Procs :
        /\ pc[p] = "unlock"
        /\ op[p] = "Discard"
        /\ ret[p] = "void"
        /\ Len(issued[p]) = 2
        /\ issued[p][1] = <<"AbortTransaction", "ctx1", FALSE>>
        /\ issued[p][2][1] = "EndSession"

\* The method of p has been turned away because the wrapper is finalized.
RejectedIn(p) == pc[p] = "unlock" /\ issued[p] = <<>> /\ op[p] # "Discard"

\* C11: every method turned away on a finalized wrapper returns the one
\* already-finalized error: Put and Delete return what Get, Has, GetSize,
\* Query and Commit return, and not the error of a closed store.
C11_OneFinalizedError ==
    \A p \in Procs : RejectedIn(p) => ret[p] = "ErrTxnFinalized"

\* The delegate call the method of p has made, if it has made one.
Forwarded(p) == op[p] \in CrudOps /\ issued[p] # <<>>

\* C12: every Get, Has, GetSize, Put and Delete that is forwarded hands the
\* wrapper's own session context t.ctx to the delegate.
C12_BoundContext ==
    \A p \in Procs :
        (Forwarded(p) /\ op[p] \in {"Get", "Has", "GetSize", "Put", "Delete"}) =>
            issued[p][1][2] = "t.ctx"

\* C16: finalized never goes back from true to false, and it goes from false
\* to true only in a step of a Discard or of a Commit whose remote commit
\* succeeded in that step.
C16_FinalizedMonotonic ==
    [][/\ finalized => finalized'
       /\ (~finalized /\ finalized') =>
             \E p \in Procs :
                 /\ pc'[p] # pc[p]
                 /\ \/ op[p] = "Discard"
                    \/ /\ op[p] = "Commit"
                       /\ issued'[p] = <<<<"CommitTransaction", "ctx1", TRUE>>>>]_vars

\* finalized has just been set and the end-session call is still to come,
\* with another goroutine waiting for the lock.
C16_Witness ==
    /\ finalized
    /\ \E p, q \in Procs : pc[p] = "end" /\ op[p] = "Commit" /\ pc[q] = "lock"

\* C18: no step of a Get, Has, GetSize, Query, QueryExtended, Put or Delete,
\* forwarded, failed in the delegate or turned away, changes finalized or
\* issues a commit, abort or end-session call on the session.
C18_CrudLeavesLifecycle ==
    [][\A p \in Procs :
         (op[p] \in CrudOps /\ pc'[p] # pc[p]) =>
             (finalized' = finalized /\ session' = session)]_vars

\* A CRUD method is about to return the error of its delegate, the wrapper
\* still active and the session untouched.
C18_Witness ==
    /\ ~finalized
    /\ session = [commits |-> 0, aborts |-> 0, ends |-> 0]
    /\ \E p \in Procs : op[p] \in CrudOps /\ pc[p] = "unlock" /\ ret[p] = "DelegateErr"

\* C19: every method that has been called returns: a goroutine inside a
\* method, or waiting for the lock, is later between calls again.
C19_EveryCallReturns ==
    \A p \in Procs : (pc[p] # "idle") ~> (pc[p] = "idle")

\* A method is about to return a rejection and release the lock another
\* goroutine is waiting for.
C19_Witness ==
    \E p, q \in Procs :
        /\ pc[p] = "unlock"
        /\ ret[p] \in FinalizedErrors
        /\ lock = p
        /\ pc[q] = "lock"

\* Session s belongs to a wrapper newTransaction has returned.
Owned(s) == \E w \in Txns : wrappers[w].session = s

\* Session s is the session of a newTransaction that is still to start its
\* transaction.
BeingSetUp(s) == \E p \in Callers : fses[p] = s /\ fpc[p] = "startTransaction"

\* C13: when starting the transaction fails, newTransaction returns the
\* transaction-start error and no wrapper, and has released the session it
\* created: every session without a wrapper has had end-session issued on it.
C13_NoLeakedSession ==
    /\ \A p \in Callers :
         (fpc[p] = "runlock" /\ fret[p] = Failed("TxnStartError")) =>
             (~Owned(fses[p]) /\ sessions[fses[p]].ends >= 1)
    /\ \A s \in 1..Len(sessions) :
         (~Owned(s) /\ ~BeingSetUp(s)) => sessions[s].ends >= 1

C15_OneDelegateCallEach ==
    \A w \in Txns :
        LET t == wrappers[w] IN
          /\ Len(t.ops) <= Len(t.dlog)
          /\ ~t.finCalled => Len(t.dlog) = Len(t.ops)
          /\ \A i \in 1..Len(t.ops) : t.dlog[i][1] = DelegateCall(t.ops[i])

\* Put, Get and Delete were called in this order on an active wrapper.
C15_Witness ==
    /\ Len(wrappers) = 1
    /\ ~wrappers[1].finCalled
    /\ wrappers[1].ops = <<"Put", "Get", "Delete">>
    /\ Len(wrappers[1].dlog) = 3

\* A step touches wrapper w: it changes the wrapper or its session.
Touched(w) ==
    \/ wrappers'[w] # wrappers[w]
    \/ sessions'[wrappers[w].session] # sessions[wrappers[w].session]

\* C17: no two wrappers have the same session, and a step that touches one
\* wrapper leaves every other wrapper, its finalized flag and its session as
\* they are.
C17_OwnSession ==
    [][/\ \A w, v \in Txns : wrappers[w].session = wrappers[v].session => w = v
       /\ \A w, v \in Txns : (Touched(w) /\ Touched(v)) => w = v]_vars

\* Two wrappers: the first committed, its session ended; the second active,
\* its session untouched.
C17_Witness ==
    /\ Len(wrappers) = 2
    /\ wrappers[1].finalized
    /\ sessions[wrappers[1].session].ends = 1
    /\ ~wrappers[2].finalized
    /\ sessions[wrappers[2].session] = [NewSession EXCEPT !.started = TRUE]

====
